---- MODULE Spec2Model ----
(***************************************************************************)
(* Model of src/src/hangman.py: the Game value object (masking, guesses,   *)
(* lives) and HangmanCLI's timed line readers (background listener and     *)
(* select-based polling).                                                  *)
(*                                                                         *)
(* Strings are sequences of one-character strings over Alphabet.  Time is  *)
(* counted in ticks of half a second, so the 1.0 s polling slice of the    *)
(* readers is Slice = 2 ticks.                                             *)
(***************************************************************************)
EXTENDS Integers, Sequences, FiniteSets, TLC

VARIABLES
    answer,            \* Game.answer / Game._chars
    lives,             \* Game.lives
    guessed_letters,   \* Game.guessed_letters
    op,                \* the Game method just called, "none" between calls
    arg,               \* its argument
    ret,               \* its result
    input_func,        \* HangmanCLI.input_func: "input" (the builtin) or "custom"
    pc,                \* where the caller of input_with_timeout stands
    callId,            \* number of input_with_timeout calls started so far
    timeout,           \* timeout of the current call, in ticks
    elapsed,           \* time.monotonic() - start of the current call, in ticks
    waitLeft,          \* what is left of the current q.get / select slice
    queue,             \* the Queue objects q, one per call
    listener,          \* the reader threads, one per call
    outcome,           \* how the last input_with_timeout call ended
    delivery,          \* when, and with what, input_func returned to the
                       \* current call's reader thread during the call
    timedOut,          \* the calls that ended at their deadline
    intr,              \* a KeyboardInterrupt was raised during the current call
    stdin,             \* lines typed on sys.stdin and not read yet
    src,               \* sys.stdin: "open", "eof" or "error"
    sched,             \* the input source's behaviour both strategies are run on
    phase,             \* which strategy is being run on sched
    delivered,         \* the event of sched has happened in this phase
    result1,           \* what the background-listener strategy returned on sched
    ppc,               \* where play() stands in its "while True" loop
    user_in,           \* how the turn's input_with_timeout call ended
    last,              \* which branch of the loop body the last turn took
    turns,             \* turns so far that reached the is_won() / is_lost() checks
    onlyTimeouts       \* every turn read so far ended with None

gameVars == <<answer, lives, guessed_letters, op, arg, ret>>

readerVars ==
    <<input_func, pc, callId, timeout, elapsed, waitLeft, queue, listener,
      outcome, delivery, timedOut, intr, stdin, src>>

equivVars == <<sched, phase, delivered, result1>>

playVars == <<ppc, user_in, last, turns, onlyTimeouts>>

vars == <<gameVars, readerVars, equivVars, playVars>>

-----------------------------------------------------------------------------
(* Bounds *)

MaxInputLen == 3       \* longest argument handed to a Game method
LivesBelowZero == 1    \* how far below zero the model lets lives fall
MaxCalls == 3          \* input_with_timeout calls made on one HangmanCLI
MaxTimeout == 3        \* longest timeout, in ticks (1.5 s)
MaxTyped == 2          \* lines typed ahead on sys.stdin

(* Program constants *)

DEFAULT_LIVES == 6
Slice == 2             \* the 1.0 s of min(1.0, remaining), in ticks

-----------------------------------------------------------------------------
(* Characters and strings *)

Alphabet == {"a", "A", "b", " ", "1"}

IsAlpha(ch) == ch \in {"a", "A", "b"}

IsSpace(ch) == ch = " "

Lower(ch) == IF ch = "A" THEN "a" ELSE ch

StrLower(s) == [i \in 1..Len(s) |-> Lower(s[i])]

SetMin(S) == CHOOSE x \in S : \A y \in S : x <= y

SetMax(S) == CHOOSE x \in S : \A y \in S : x >= y

Strip(s) ==
    LET keep == {i \in 1..Len(s) : ~IsSpace(s[i])}
    IN  IF keep = {} THEN <<>> ELSE SubSeq(s, SetMin(keep), SetMax(keep))

StringsUpTo(n) == UNION {[1..k -> Alphabet] : k \in 0..n}

\* "Ab", "a b", " a", "b1", "aA", "1"
Answers ==
    { <<"A", "b">>, <<"a", " ", "b">>, <<" ", "a">>, <<"b", "1">>,
      <<"a", "A">>, <<"1">> }

Inputs == StringsUpTo(MaxInputLen)

\* lives values a Game is constructed with
InitialLives == {1, 2}

-----------------------------------------------------------------------------
(* Results of Game methods *)

RetNone == [kind |-> "none", b |-> FALSE, n |-> 0]

RetBool(v) == [kind |-> "bool", b |-> v, n |-> 0]

RetInt(v) == [kind |-> "int", b |-> FALSE, n |-> v]

RetValueError == [kind |-> "ValueError", b |-> FALSE, n |-> 0]

-----------------------------------------------------------------------------
(* Game: pure methods *)

CurrentStateLowered ==
    [i \in 1..Len(answer) |->
        IF ~IsAlpha(answer[i]) THEN answer[i]
        ELSE IF Lower(answer[i]) \in guessed_letters THEN Lower(answer[i])
        ELSE "_"]

current_state ==
    [i \in 1..Len(answer) |->
        IF ~IsAlpha(answer[i]) THEN answer[i]
        ELSE IF Lower(answer[i]) \in guessed_letters THEN answer[i]
        ELSE "_"]

IsWonAnyLetter ==
    \E i \in 1..Len(answer) :
        IsAlpha(answer[i]) /\ Lower(answer[i]) \in guessed_letters

is_won ==
    \A i \in 1..Len(answer) :
        ~(IsAlpha(answer[i]) /\ Lower(answer[i]) \notin guessed_letters)

IsLostBelowZero == lives < 0

is_lost == lives <= 0

ValidLetterAnyChar(letter) == Len(letter) = 1

ValidLetter(letter) == Len(letter) = 1 /\ IsAlpha(letter[1])

CountCaseSensitive(letter) ==
    Cardinality({i \in 1..Len(answer) : answer[i] = letter})

CountOccurrences(letter) ==
    Cardinality({i \in 1..Len(answer) : Lower(answer[i]) = letter})

FullGuessLettersRaw ==
    {answer[i] : i \in {j \in 1..Len(answer) : IsAlpha(answer[j])}}

FullGuessLetters ==
    {Lower(answer[i]) : i \in {j \in 1..Len(answer) : IsAlpha(answer[j])}}

FullGuessMatches(attempt) ==
    StrLower(Strip(attempt)) = StrLower(Strip(answer))

WrongFullGuessKeepsLives(l) == l

WrongFullGuessLives(l) == l - 1

-----------------------------------------------------------------------------
(* Game: construction and mutators *)

NewGame ==
    /\ answer \in Answers
    /\ lives \in InitialLives
    /\ guessed_letters = {}
    /\ op = "none"
    /\ arg = <<>>
    /\ ret = RetNone

reveal_count ==
    /\ op = "none"
    /\ \E letter \in Inputs :
           /\ op' = "reveal_count"
           /\ arg' = letter
           /\ UNCHANGED <<answer, lives, readerVars, equivVars, playVars>>
           /\ IF ~ValidLetter(letter)
              THEN /\ ret' = RetValueError
                   /\ UNCHANGED guessed_letters
              ELSE LET l == Lower(letter[1])
                   IN  IF l \in guessed_letters
                       THEN /\ ret' = RetInt(0)
                            /\ UNCHANGED guessed_letters
                       ELSE /\ guessed_letters' = guessed_letters \cup {l}
                            /\ ret' = RetInt(CountOccurrences(l))

\* game.guess_letter(letter), whoever calls it
GuessLetterCall(letter) ==
    /\ op' = "guess_letter"
    /\ arg' = letter
    /\ UNCHANGED answer
    /\ IF ~ValidLetter(letter)
       THEN /\ ret' = RetValueError
            /\ UNCHANGED <<guessed_letters, lives>>
       ELSE LET l == Lower(letter[1])
            IN  IF l \in guessed_letters
                THEN /\ ret' = RetBool(\E i \in 1..Len(answer) :
                                          Lower(answer[i]) = l)
                     /\ UNCHANGED <<guessed_letters, lives>>
                ELSE /\ guessed_letters' = guessed_letters \cup {l}
                     /\ IF CountOccurrences(l) > 0
                        THEN /\ ret' = RetBool(TRUE)
                             /\ UNCHANGED lives
                        ELSE /\ lives > -LivesBelowZero
                             /\ lives' = lives - 1
                             /\ ret' = RetBool(FALSE)

guess_letter ==
    /\ op = "none"
    /\ \E letter \in Inputs :
           /\ GuessLetterCall(letter)
           /\ UNCHANGED <<readerVars, equivVars, playVars>>

\* game.guess_full(attempt) with a string, whoever calls it
GuessFullCall(attempt) ==
    /\ op' = "guess_full"
    /\ arg' = attempt
    /\ UNCHANGED answer
    /\ IF FullGuessMatches(attempt)
       THEN /\ guessed_letters' = guessed_letters \cup FullGuessLetters
            /\ ret' = RetBool(TRUE)
            /\ UNCHANGED lives
       ELSE /\ lives > -LivesBelowZero
            /\ lives' = WrongFullGuessLives(lives)
            /\ ret' = RetBool(FALSE)
            /\ UNCHANGED guessed_letters

guess_full ==
    /\ op = "none"
    /\ \E attempt \in Inputs :
           /\ GuessFullCall(attempt)
           /\ UNCHANGED <<readerVars, equivVars, playVars>>

guess_full_none ==
    /\ op = "none"
    /\ op' = "guess_full"
    /\ arg' = <<"None">>
    /\ ret' = RetValueError
    /\ UNCHANGED <<answer, lives, guessed_letters, readerVars, equivVars, playVars>>

-----------------------------------------------------------------------------
(* HangmanCLI: values and helpers of the timed readers *)

\* lines the input source delivers (without their line end)
Lines == {<<"a">>, <<"A", "b">>}

Calls == 1..MaxCalls

\* what a reader thread puts on its queue: q.put(v) or q.put(None); by
\* records the thread that put it
Entry(isNone, line, by) == [none |-> isNone, line |-> line, by |-> by]

Pending == [kind |-> "pending", none |-> FALSE, line |-> <<>>, by |-> 0]

Returned(isNone, line, by) ==
    [kind |-> "returned", none |-> isNone, line |-> line, by |-> by]

Raised(exc) == [kind |-> exc, none |-> FALSE, line |-> <<>>, by |-> 0]

NoDelivery == [at |-> -1, line |-> <<>>]

Min(a, b) == IF a <= b THEN a ELSE b

SharedQueue(call) == 1

\* q = Queue() is a local of each _input_with_timeout_threaded call
QueueOf(call) == call

WaitWholeSlice(remaining) == Slice

\* wait = min(1.0, remaining) of the background-listener strategy
WaitSlice(remaining) == Min(Slice, remaining)

\* wait = min(1.0, remaining) of the select strategy
UnixWaitSlice(remaining) == Min(Slice, remaining)

RECURSIVE RStrip(_, _)
RStrip(s, ch) ==
    IF s # <<>> /\ s[Len(s)] = ch THEN RStrip(SubSeq(s, 1, Len(s) - 1), ch)
    ELSE s

\* select.select([sys.stdin], [], [], wait) reports sys.stdin
Readable == stdin # <<>> \/ src # "open"

Waiting == pc # "idle"

\* the last input_with_timeout call has ended
Ended == pc = "idle" /\ callId > 0

\* no Game is played: a HangmanCLI used for its input_with_timeout alone
NoGame ==
    /\ answer = <<"a">>
    /\ lives = DEFAULT_LIVES
    /\ guessed_letters = {}
    /\ op = "none"
    /\ arg = <<>>
    /\ ret = RetNone

NoReader ==
    /\ input_func = "input"
    /\ pc = "idle"
    /\ callId = 0
    /\ timeout = 0
    /\ elapsed = 0
    /\ waitLeft = 0
    /\ queue = [c \in Calls |-> <<>>]
    /\ listener = [c \in Calls |-> "unborn"]
    /\ outcome = Pending
    /\ delivery = NoDelivery
    /\ timedOut = {}
    /\ intr = FALSE
    /\ stdin = <<>>
    /\ src = "open"

NoSchedule ==
    /\ sched = [kind |-> "none", at |-> 0, line |-> <<>>]
    /\ phase = "off"
    /\ delivered = FALSE
    /\ result1 = Pending

\* no play() is running
NoPlay ==
    /\ ppc = "off"
    /\ user_in = Pending
    /\ last = "none"
    /\ turns = 0
    /\ onlyTimeouts = TRUE

-----------------------------------------------------------------------------
(* HangmanCLI.input_with_timeout, background-listener strategy *)

\* _input_with_timeout_threaded up to the wait loop
StartThreaded(T) ==
    /\ pc = "idle"
    /\ callId < MaxCalls
    /\ callId' = callId + 1
    /\ queue' = [queue EXCEPT ![QueueOf(callId + 1)] = <<>>]
    /\ listener' = [listener EXCEPT ![callId + 1] = "reading"]
    /\ timeout' = T
    /\ elapsed' = 0
    /\ waitLeft' = 0
    /\ outcome' = Pending
    /\ delivery' = NoDelivery
    /\ intr' = FALSE
    /\ pc' = "check"
    /\ UNCHANGED <<timedOut, stdin, src>>

\* top of the wait loop: the deadline test, the drain and the slice
ThreadedCheckBody ==
    /\ pc = "check"
    /\ IF timeout - elapsed <= 0
       THEN /\ queue' = [queue EXCEPT ![QueueOf(callId)] = <<>>]
            /\ outcome' = Returned(TRUE, <<>>, 0)
            /\ pc' = "idle"
            /\ timedOut' = timedOut \cup {callId}
            /\ UNCHANGED waitLeft
       ELSE /\ waitLeft' = WaitSlice(timeout - elapsed)
            /\ pc' = "get"
            /\ UNCHANGED <<queue, outcome, timedOut>>
    /\ UNCHANGED <<input_func, callId, timeout, elapsed, listener, delivery,
                   intr, stdin, src>>

\* q.get(timeout=wait) finds a value
ThreadedGetValueBody ==
    /\ pc = "get"
    /\ queue[QueueOf(callId)] # <<>>
    /\ LET e == Head(queue[QueueOf(callId)])
       IN  outcome' = Returned(e.none, e.line, e.by)
    /\ queue' = [queue EXCEPT ![QueueOf(callId)] = Tail(@)]
    /\ pc' = "idle"
    /\ UNCHANGED <<timedOut, input_func, callId, timeout, elapsed, waitLeft, listener,
                   delivery, intr, stdin, src>>

\* q.get(timeout=wait) raises Empty
ThreadedGetEmptyBody ==
    /\ pc = "get"
    /\ queue[QueueOf(callId)] = <<>>
    /\ waitLeft = 0
    /\ pc' = "check"
    /\ UNCHANGED <<timedOut, input_func, callId, timeout, elapsed, waitLeft, queue,
                   listener, outcome, delivery, intr, stdin, src>>

\* reader(): input_func returns line, q.put(v)
ListenerReturnsBody(l, line) ==
    /\ listener[l] = "reading"
    /\ listener' = [listener EXCEPT ![l] = "returned"]
    /\ queue' = [queue EXCEPT ![QueueOf(l)] =
                    Append(@, Entry(FALSE, line, l))]
    /\ delivery' = IF l = callId /\ Waiting
                   THEN [at |-> elapsed, line |-> line]
                   ELSE delivery
    /\ UNCHANGED <<timedOut, input_func, pc, callId, timeout, elapsed, waitLeft,
                   outcome, intr, stdin, src>>

\* reader(): input_func raises an Exception (EOFError, OSError), q.put(None)
ListenerFailsBody(l) ==
    /\ listener[l] = "reading"
    /\ listener' = [listener EXCEPT ![l] = "failed"]
    /\ queue' = [queue EXCEPT ![QueueOf(l)] =
                    Append(@, Entry(TRUE, <<>>, l))]
    /\ UNCHANGED <<timedOut, input_func, pc, callId, timeout, elapsed, waitLeft,
                   outcome, delivery, intr, stdin, src>>

\* reader(): input_func raises KeyboardInterrupt, which "except Exception"
\* does not catch: the thread ends and puts nothing
ListenerInterruptedBody(l) ==
    /\ listener[l] = "reading"
    /\ listener' = [listener EXCEPT ![l] = "interrupted"]
    /\ intr' = (intr \/ (l = callId /\ Waiting))
    /\ UNCHANGED <<timedOut, input_func, pc, callId, timeout, elapsed, waitLeft, queue,
                   outcome, delivery, stdin, src>>

-----------------------------------------------------------------------------
(* HangmanCLI.input_with_timeout, select strategy *)

\* _input_with_timeout_unix up to the wait loop
StartUnix(T) ==
    /\ pc = "idle"
    /\ callId < MaxCalls
    /\ callId' = callId + 1
    /\ timeout' = T
    /\ elapsed' = 0
    /\ waitLeft' = 0
    /\ outcome' = Pending
    /\ delivery' = NoDelivery
    /\ intr' = FALSE
    /\ pc' = "ucheck"
    /\ UNCHANGED <<timedOut, queue, listener, stdin, src>>

\* top of the wait loop: the deadline test and the slice
UnixCheckBody ==
    /\ pc = "ucheck"
    /\ IF timeout - elapsed <= 0
       THEN /\ outcome' = Returned(TRUE, <<>>, 0)
            /\ pc' = "idle"
            /\ timedOut' = timedOut \cup {callId}
            /\ UNCHANGED waitLeft
       ELSE /\ waitLeft' = UnixWaitSlice(timeout - elapsed)
            /\ pc' = "uselect"
            /\ UNCHANGED <<outcome, timedOut>>
    /\ UNCHANGED <<input_func, callId, timeout, elapsed, queue, listener,
                   delivery, intr, stdin, src>>

\* select reports sys.stdin; sys.stdin.readline() and the two rstrip calls
UnixSelectReadyBody ==
    /\ pc = "uselect"
    /\ Readable
    /\ IF stdin # <<>>
       THEN /\ outcome' = Returned(FALSE,
                              RStrip(RStrip(Head(stdin), "\n"), "\r"), 0)
            /\ stdin' = Tail(stdin)
       ELSE /\ outcome' = IF src = "eof"
                          THEN Returned(FALSE, RStrip(RStrip(<<>>, "\n"), "\r"), 0)
                          ELSE Raised("OSError")
            /\ UNCHANGED stdin
    /\ pc' = "idle"
    /\ UNCHANGED <<timedOut, input_func, callId, timeout, elapsed, waitLeft, queue,
                   listener, delivery, intr, src>>

\* select returns an empty rlist after the slice
UnixSelectTimeoutBody ==
    /\ pc = "uselect"
    /\ ~Readable
    /\ waitLeft = 0
    /\ pc' = "ucheck"
    /\ UNCHANGED <<timedOut, input_func, callId, timeout, elapsed, waitLeft, queue,
                   listener, outcome, delivery, intr, stdin, src>>

\* the user types a line on sys.stdin
TypeLineBody(line) ==
    /\ src = "open"
    /\ Len(stdin) < MaxTyped
    /\ stdin' = Append(stdin, line \o <<"\n">>)
    /\ UNCHANGED <<timedOut, input_func, pc, callId, timeout, elapsed, waitLeft, queue,
                   listener, outcome, delivery, intr, src>>

\* sys.stdin reaches end of input (how = "eof") or fails (how = "error")
CloseStdinBody(how) ==
    /\ src = "open"
    /\ src' = how
    /\ UNCHANGED <<timedOut, input_func, pc, callId, timeout, elapsed, waitLeft, queue,
                   listener, outcome, delivery, intr, stdin>>

-----------------------------------------------------------------------------
(* Both strategies: the dispatch, Ctrl-C in the main thread, and time *)

\* input_with_timeout on a platform without msvcrt: the background listener
\* for any input_func but the builtin input, select otherwise
Dispatch(T) == IF input_func # "input" THEN StartThreaded(T) ELSE StartUnix(T)

\* KeyboardInterrupt is raised in the main thread, inside q.get or select
MainInterruptBody ==
    /\ Waiting
    /\ outcome' = Raised("KeyboardInterrupt")
    /\ intr' = TRUE
    /\ pc' = "idle"
    /\ UNCHANGED <<timedOut, input_func, callId, timeout, elapsed, waitLeft, queue,
                   listener, delivery, stdin, src>>

\* half a second passes while the caller is blocked in q.get or select
TickBody ==
    /\ \/ pc = "get" /\ queue[QueueOf(callId)] = <<>>
       \/ pc = "uselect" /\ ~Readable
    /\ waitLeft > 0
    /\ elapsed' = elapsed + 1
    /\ waitLeft' = waitLeft - 1
    /\ UNCHANGED <<timedOut, input_func, pc, callId, timeout, queue, listener, outcome,
                   delivery, intr, stdin, src>>

-----------------------------------------------------------------------------
(* A HangmanCLI on which input_with_timeout is called again and again *)

ReaderInit ==
    /\ NoGame
    /\ NoSchedule
    /\ NoPlay
    /\ input_func \in {"input", "custom"}
    /\ pc = "idle"
    /\ callId = 0
    /\ timeout = 0
    /\ elapsed = 0
    /\ waitLeft = 0
    /\ queue = [c \in Calls |-> <<>>]
    /\ listener = [c \in Calls |-> "unborn"]
    /\ outcome = Pending
    /\ delivery = NoDelivery
    /\ timedOut = {}
    /\ intr = FALSE
    /\ stdin = <<>>
    /\ src = "open"

Idle == UNCHANGED <<playVars, gameVars, equivVars>>

input_with_timeout ==
    /\ \E T \in 1..MaxTimeout : Dispatch(T)
    /\ UNCHANGED input_func
    /\ Idle

ThreadedCheck == ThreadedCheckBody /\ Idle

ThreadedGetValue == ThreadedGetValueBody /\ Idle

ThreadedGetEmpty == ThreadedGetEmptyBody /\ Idle

ListenerReturns ==
    (\E l \in Calls : \E line \in Lines : ListenerReturnsBody(l, line)) /\ Idle

ListenerFails == (\E l \in Calls : ListenerFailsBody(l)) /\ Idle

ListenerInterrupted == (\E l \in Calls : ListenerInterruptedBody(l)) /\ Idle

UnixCheck == UnixCheckBody /\ Idle

UnixSelectReady == UnixSelectReadyBody /\ Idle

UnixSelectTimeout == UnixSelectTimeoutBody /\ Idle

TypeLine ==
    /\ input_func = "input"
    /\ \E line \in Lines : TypeLineBody(line)
    /\ Idle

CloseStdin ==
    /\ input_func = "input"
    /\ \E how \in {"eof", "error"} : CloseStdinBody(how)
    /\ Idle

MainInterrupt == MainInterruptBody /\ Idle

Tick == TickBody /\ Idle

ReaderNext ==
    \/ input_with_timeout
    \/ ThreadedCheck
    \/ ThreadedGetValue
    \/ ThreadedGetEmpty
    \/ ListenerReturns
    \/ ListenerFails
    \/ ListenerInterrupted
    \/ UnixCheck
    \/ UnixSelectReady
    \/ UnixSelectTimeout
    \/ TypeLine
    \/ CloseStdin
    \/ MainInterrupt
    \/ Tick

ReaderSpec == ReaderInit /\ [][ReaderNext]_vars

-----------------------------------------------------------------------------
(* Both strategies run on the same behaviour of the input source: first a   *)
(* HangmanCLI whose input_func reads the source as the builtin input does   *)
(* (a line without its line end, EOFError at end of input, OSError on a     *)
(* failed read), then a HangmanCLI with the builtin input, which selects on *)
(* sys.stdin.  The source's one event happens sched.at ticks into the call. *)

Schedules ==
    { sc \in [kind : {"line", "none", "eof", "error"}, at : 0..(MaxTimeout - 1),
              line : Lines \cup {<<>>}, T : 1..MaxTimeout] :
        /\ sc.at < sc.T
        /\ (sc.kind = "line") = (sc.line # <<>>)
        /\ sc.kind = "none" => sc.at = 0 }

EquivInit ==
    /\ NoGame
    /\ NoReader
    /\ NoPlay
    /\ sched \in Schedules
    /\ phase = "threaded"
    /\ delivered = FALSE
    /\ result1 = Pending

EventDue == Waiting /\ ~delivered /\ sched.kind # "none" /\ elapsed = sched.at

\* HangmanCLI(input_func=...) and its one input_with_timeout call
EqFirstCall ==
    /\ phase = "threaded"
    /\ callId = 0
    /\ pc = "idle"
    /\ input_func' = "custom"
    /\ StartThreaded(sched.T)
    /\ UNCHANGED <<playVars, gameVars, equivVars>>

\* the source's event, as the reader thread's input_func sees it
EqListenerEvent ==
    /\ phase = "threaded"
    /\ EventDue
    /\ IF sched.kind = "line"
       THEN ListenerReturnsBody(callId, sched.line)
       ELSE ListenerFailsBody(callId)
    /\ delivered' = TRUE
    /\ UNCHANGED <<playVars, gameVars, sched, phase, result1>>

\* HangmanCLI() and its one input_with_timeout call
EqSecondCall ==
    /\ phase = "threaded"
    /\ Ended
    /\ result1' = outcome
    /\ phase' = "unix"
    /\ delivered' = FALSE
    /\ input_func' = "input"
    /\ StartUnix(sched.T)
    /\ UNCHANGED <<playVars, gameVars, sched>>

\* the source's event, as sys.stdin shows it
EqStdinEvent ==
    /\ phase = "unix"
    /\ EventDue
    /\ IF sched.kind = "line"
       THEN TypeLineBody(sched.line)
       ELSE CloseStdinBody(sched.kind)
    /\ delivered' = TRUE
    /\ UNCHANGED <<playVars, gameVars, sched, phase, result1>>

EqTick == ~EventDue /\ TickBody /\ Idle

EquivNext ==
    \/ EqFirstCall
    \/ ThreadedCheck
    \/ ThreadedGetValue
    \/ ThreadedGetEmpty
    \/ EqListenerEvent
    \/ EqSecondCall
    \/ UnixCheck
    \/ UnixSelectReady
    \/ UnixSelectTimeout
    \/ EqStdinEvent
    \/ EqTick

EquivSpec == EquivInit /\ [][EquivNext]_vars

-----------------------------------------------------------------------------
(* A Game whose methods are called in any order *)

GameInit == NewGame /\ NoReader /\ NoSchedule /\ NoPlay

\* the caller has taken the result of the call
result_taken ==
    /\ op # "none"
    /\ op' = "none"
    /\ arg' = <<>>
    /\ ret' = RetNone
    /\ UNCHANGED <<answer, lives, guessed_letters, readerVars, equivVars, playVars>>

GameNext ==
    \/ reveal_count
    \/ guess_letter
    \/ guess_full
    \/ guess_full_none
    \/ result_taken

GameSpec == GameInit /\ [][GameNext]_vars

-----------------------------------------------------------------------------
(* HangmanCLI.play: one round.  A turn is read (the prompt and the           *)
(* input_with_timeout call), applied (the branch of the loop body the input  *)
(* selects) and, unless the branch ended in continue or return, checked      *)
(* (is_won() and is_lost()).                                                 *)

QuitWord == <<"q", "u", "i", "t">>

\* Dictionary._load_file keeps the stripped, non-empty lines
PlayAnswers == {a \in Answers : a # <<>> /\ Strip(a) = a}

\* the lines a player types
TurnLines == Inputs \cup {QuitWord, QuitWord \o <<" ">>}

\* the ways input_with_timeout ends that play handles
ReadResults ==
    {Returned(TRUE, <<>>, 0), Raised("KeyboardInterrupt")}
        \cup {Returned(FALSE, line, 0) : line \in TurnLines}

GotLine == ppc = "got" /\ user_in.kind = "returned" /\ ~user_in.none

\* user_in = user_in.strip()
Trimmed == Strip(user_in.line)

IsQuit(s) == StrLower(s) = QuitWord

IsSingleLetter(s) == Len(s) = 1 /\ IsAlpha(s[1])

\* len(user_in) == 1
IsSingle(s) == Len(s) = 1

AlreadyGuessedExact(s) == s[1] \in guessed_letters

\* user_in.lower() in game.guessed_letters
AlreadyGuessed(s) == Lower(s[1]) \in guessed_letters

TimeoutKeepsLives(l) == l

\* game.lives -= 1
TimeoutLives(l) == l - 1

NoCall == UNCHANGED <<op, arg, ret>>

PlayInit ==
    /\ answer \in PlayAnswers
    /\ lives = DEFAULT_LIVES
    /\ guessed_letters = {}
    /\ op = "none"
    /\ arg = <<>>
    /\ ret = RetNone
    /\ NoReader
    /\ NoSchedule
    /\ ppc = "top"
    /\ user_in = Pending
    /\ last = "none"
    /\ turns = 0
    /\ onlyTimeouts = TRUE

\* the top of the loop: the masked word, the prompt and the timed read
play_read ==
    /\ ppc = "top"
    /\ \E r \in ReadResults :
           /\ user_in' = r
           /\ onlyTimeouts' = (onlyTimeouts /\ r = Returned(TRUE, <<>>, 0))
    /\ ppc' = "got"
    /\ UNCHANGED <<gameVars, readerVars, equivVars, last, turns>>

\* except KeyboardInterrupt: return
play_interrupted ==
    /\ ppc = "got"
    /\ user_in.kind = "KeyboardInterrupt"
    /\ ppc' = "interrupted"
    /\ last' = "interrupt"
    /\ UNCHANGED <<gameVars, readerVars, equivVars, user_in, turns,
                   onlyTimeouts>>

\* if user_in is None
play_timeout ==
    /\ ppc = "got"
    /\ user_in.kind = "returned"
    /\ user_in.none
    /\ lives' = TimeoutLives(lives)
    /\ ppc' = "check"
    /\ last' = "timeout"
    /\ turns' = turns + 1
    /\ NoCall
    /\ UNCHANGED <<answer, guessed_letters, readerVars, equivVars, user_in,
                   onlyTimeouts>>

\* if user_in.lower() == "quit": return
play_quit ==
    /\ GotLine
    /\ IsQuit(Trimmed)
    /\ ppc' = "quit"
    /\ last' = "quit"
    /\ UNCHANGED <<gameVars, readerVars, equivVars, user_in, turns,
                   onlyTimeouts>>

\* if len(user_in) == 0: continue
play_empty ==
    /\ GotLine
    /\ ~IsQuit(Trimmed)
    /\ Len(Trimmed) = 0
    /\ ppc' = "again"
    /\ last' = "empty"
    /\ UNCHANGED <<gameVars, readerVars, equivVars, user_in, turns,
                   onlyTimeouts>>

\* a repeated guess: continue
play_repeated ==
    /\ GotLine
    /\ ~IsQuit(Trimmed)
    /\ Len(Trimmed) # 0
    /\ IsSingle(Trimmed)
    /\ AlreadyGuessed(Trimmed)
    /\ ppc' = "again"
    /\ last' = "repeated"
    /\ UNCHANGED <<gameVars, readerVars, equivVars, user_in, turns,
                   onlyTimeouts>>

\* try: game.guess_letter(user_in)  except ValueError: continue
play_letter ==
    /\ GotLine
    /\ ~IsQuit(Trimmed)
    /\ Len(Trimmed) # 0
    /\ IsSingle(Trimmed)
    /\ ~AlreadyGuessed(Trimmed)
    /\ GuessLetterCall(Trimmed)
    /\ IF ret' = RetValueError
       THEN /\ ppc' = "again"
            /\ last' = "invalid"
            /\ UNCHANGED turns
       ELSE /\ ppc' = "check"
            /\ last' = "letter"
            /\ turns' = turns + 1
    /\ UNCHANGED <<readerVars, equivVars, user_in, onlyTimeouts>>

\* else: game.guess_full(user_in)
play_full ==
    /\ GotLine
    /\ ~IsQuit(Trimmed)
    /\ Len(Trimmed) # 0
    /\ ~IsSingle(Trimmed)
    /\ GuessFullCall(Trimmed)
    /\ ppc' = "check"
    /\ last' = "full"
    /\ turns' = turns + 1
    /\ UNCHANGED <<readerVars, equivVars, user_in, onlyTimeouts>>

\* the next pass of the loop starts with fresh locals
NextTurn ==
    /\ ppc' = "top"
    /\ user_in' = Pending
    /\ last' = "none"
    /\ op' = "none"
    /\ arg' = <<>>
    /\ ret' = RetNone

\* if game.is_won(): return   if game.is_lost(): return
play_checks ==
    /\ ppc = "check"
    /\ IF is_won
       THEN ppc' = "won" /\ UNCHANGED <<user_in, last, op, arg, ret>>
       ELSE IF is_lost
            THEN ppc' = "lost" /\ UNCHANGED <<user_in, last, op, arg, ret>>
            ELSE NextTurn
    /\ UNCHANGED <<answer, lives, guessed_letters, readerVars, equivVars,
                   turns, onlyTimeouts>>

\* continue
play_continue ==
    /\ ppc = "again"
    /\ NextTurn
    /\ UNCHANGED <<answer, lives, guessed_letters, readerVars, equivVars,
                   turns, onlyTimeouts>>

PlayNext ==
    \/ play_read
    \/ play_interrupted
    \/ play_timeout
    \/ play_quit
    \/ play_empty
    \/ play_repeated
    \/ play_letter
    \/ play_full
    \/ play_checks
    \/ play_continue

PlaySpec == PlayInit /\ [][PlayNext]_vars

-----------------------------------------------------------------------------
(* Properties of the timed readers *)

Live == {l \in Calls : listener[l] = "reading"}

\* C1: every value a background-listener call returns was put by the reader
\* thread that this call started, and no queue a call reads holds a value put
\* by the thread of another call.
C1_NoStaleValue ==
    /\ (Ended /\ outcome.kind = "returned" /\ outcome.by # 0)
            => outcome.by = callId
    /\ \A c \in 1..callId : \A i \in 1..Len(queue[QueueOf(c)]) :
            queue[QueueOf(c)][i].by = c

\* call 1 timed out and drained its queue, its abandoned thread delivered a
\* line afterwards, and call 2 returned the value of its own thread
C1_Witness ==
    /\ 1 \in timedOut
    /\ callId = 2
    /\ Ended
    /\ \E i \in 1..Len(queue[QueueOf(1)]) :
            queue[QueueOf(1)][i].by = 1 /\ ~queue[QueueOf(1)][i].none
    /\ outcome.kind = "returned"
    /\ ~outcome.none
    /\ outcome.by = 2

\* C2: a background-listener call whose input function returned v before the
\* deadline returns v; one whose input function has not returned when the call
\* ends returns None, exactly at the deadline; and every wait of the loop is a
\* slice of at most one second that ends no later than the deadline.
C2_ValueOrTimeout ==
    /\ (Ended /\ input_func = "custom" /\ outcome.kind = "returned")
            => /\ (delivery.at >= 0 /\ delivery.at < timeout)
                    => (~outcome.none /\ outcome.line = delivery.line)
               /\ listener[callId] = "reading"
                    => (outcome.none /\ elapsed = timeout)
    /\ input_func = "custom"
            => (waitLeft <= Slice /\ elapsed + waitLeft <= timeout)

\* call 1 timed out after a whole slice and a shorter one, and call 2
\* returned a value that arrived during its second slice
C2_Witness ==
    /\ 1 \in timedOut
    /\ callId = 2
    /\ Ended
    /\ timeout > Slice
    /\ delivery.at >= Slice
    /\ delivery.at < timeout
    /\ outcome.kind = "returned"
    /\ outcome.line = delivery.line
    /\ outcome.line # <<>>

\* C3: at most one background listener (that of the current call or of a call
\* that timed out) is live at any time, and no listener is live while the
\* select strategy polls.
C3_OneLiveListener ==
    /\ Cardinality(Live \cap (timedOut \cup {callId})) <= 1
    /\ pc \in {"ucheck", "uselect"} => Live = {}

\* C4: once input_with_timeout has returned, no listener of that call is
\* still reading, and no listener of a call that returned at its deadline
\* consumes a line of the input source afterwards.
C4_NoReadOutlivesTurn ==
    /\ Live \cap timedOut = {}
    /\ \A c \in timedOut : queue[QueueOf(c)] = <<>>

\* C5: a call during which a KeyboardInterrupt was raised, in the main thread
\* or inside the listener's read, ends by raising it.
C5_InterruptPropagates ==
    (Ended /\ intr) => outcome.kind = "KeyboardInterrupt"

\* C6: input_with_timeout returns None only when the deadline has elapsed.
C6_NoneOnlyAtDeadline ==
    (Ended /\ outcome.kind = "returned" /\ outcome.none) => elapsed >= timeout

\* C7: on the same timeout and the same behaviour of the input source, the
\* background-listener strategy and the select strategy end the same way:
\* the same line, or no value.
C7_StrategiesAgree ==
    (phase = "unix" /\ Ended)
        => /\ outcome.kind = result1.kind
           /\ outcome.none = result1.none
           /\ outcome.line = result1.line

-----------------------------------------------------------------------------
(* Properties of Game *)

\* s and t are equal up to letter case and surrounding whitespace
SameUpToCaseAndSpace(s, t) == StrLower(Strip(s)) = StrLower(Strip(t))

\* the letter l occurs in the string s, ignoring case
OccursIn(l, s) == \E i \in 1..Len(s) : Lower(s[i]) = Lower(l)

\* C8: guess_full with an attempt that does not match the answer (ignoring
\* case and surrounding whitespace) decrements lives by exactly 1, returns
\* False and leaves the guessed-letter set unchanged.
C8_WrongFullGuess ==
    [][(op' = "guess_full" /\ arg' \in Inputs
            /\ ~SameUpToCaseAndSpace(arg', answer))
        => (/\ lives' = lives - 1
            /\ ret' = RetBool(FALSE)
            /\ guessed_letters' = guessed_letters)]_vars

\* a wrong full guess made with letters already guessed, lives below zero
C8_Witness ==
    /\ op = "guess_full"
    /\ arg \in Inputs
    /\ Len(arg) = MaxInputLen
    /\ ~SameUpToCaseAndSpace(arg, answer)
    /\ ret = RetBool(FALSE)
    /\ guessed_letters # {}
    /\ lives < 0

\* C9: guess_full with an attempt equal to the answer up to letter case and
\* surrounding whitespace returns True, leaves lives unchanged and makes
\* is_won() true, current_state() then being the answer itself.
C9_RightFullGuess ==
    [][(op' = "guess_full" /\ arg' \in Inputs
            /\ SameUpToCaseAndSpace(arg', answer))
        => (/\ ret' = RetBool(TRUE)
            /\ lives' = lives
            /\ is_won'
            /\ current_state' = answer)]_vars

\* a matching full guess that differs from the answer in case or whitespace
C9_Witness ==
    /\ op = "guess_full"
    /\ arg \in Inputs
    /\ arg # answer
    /\ SameUpToCaseAndSpace(arg, answer)
    /\ \E i \in 1..Len(answer) : IsAlpha(answer[i]) /\ Lower(answer[i]) # answer[i]
    /\ ret = RetBool(TRUE)
    /\ is_won
    /\ lives <= 0

\* C10: guess_letter with a single alphabetic letter not yet guessed adds the
\* case-folded letter to the guessed set; if the letter occurs in the answer
\* (ignoring case) it returns True and lives is unchanged, otherwise it
\* returns False and lives is decremented by exactly 1.
C10_GuessLetter ==
    [][(op' = "guess_letter" /\ Len(arg') = 1 /\ IsAlpha(arg'[1])
            /\ Lower(arg'[1]) \notin guessed_letters)
        => (/\ guessed_letters' = guessed_letters \cup {Lower(arg'[1])}
            /\ IF OccursIn(arg'[1], answer)
               THEN ret' = RetBool(TRUE) /\ lives' = lives
               ELSE ret' = RetBool(FALSE) /\ lives' = lives - 1)]_vars

\* a guess of a letter the answer does not hold, after an earlier hit
C10_Witness ==
    /\ op = "guess_letter"
    /\ Len(arg) = 1
    /\ IsAlpha(arg[1])
    /\ ~OccursIn(arg[1], answer)
    /\ ret = RetBool(FALSE)
    /\ Cardinality(guessed_letters) = 2
    /\ lives = 0

-----------------------------------------------------------------------------
(* Properties of Game, continued *)

\* C11: reveal_count on a letter whose lowercase form is not yet guessed
\* returns the number of positions of the answer holding that letter in
\* either case (0 when there is none) and adds that one lowercase letter to
\* the guessed set; on a letter already guessed, in either case, it returns
\* 0 and adds nothing; it never changes lives.
C11_RevealCount ==
    [][(op' = "reveal_count" /\ Len(arg') = 1 /\ IsAlpha(arg'[1]))
        => LET l == Lower(arg'[1])
               n == Cardinality({i \in 1..Len(answer) :
                                    OccursIn(l, <<answer[i]>>)})
           IN  /\ lives' = lives
               /\ guessed_letters' = guessed_letters \cup {l}
               /\ ret' = IF l \in guessed_letters THEN RetInt(0)
                                                   ELSE RetInt(n)]_vars

\* a first reveal_count("a") on "aA" has returned 2
C11_Witness ==
    /\ op = "reveal_count"
    /\ answer = <<"a", "A">>
    /\ arg = <<"a">>
    /\ ret = RetInt(2)

\* C12: guess_letter and reveal_count fail with ValueError for every input
\* whose length is not 1 or whose one character is not alphabetic, and the
\* failing call leaves lives and the guessed set unchanged.
C12_InvalidLetter ==
    [][(/\ op' \in {"guess_letter", "reveal_count"}
        /\ (Len(arg') # 1 \/ ~IsAlpha(arg'[1])))
        => (/\ ret' = RetValueError
            /\ lives' = lives
            /\ guessed_letters' = guessed_letters)]_vars

\* guess_letter("1") has failed on a Game that already holds a guess
C12_Witness ==
    /\ op = "guess_letter"
    /\ arg = <<"1">>
    /\ ret = RetValueError
    /\ guessed_letters # {}

\* C13: current_state() has the answer's length; a non-alphabetic position
\* shows the answer's character; an alphabetic position shows the answer's
\* original-case character when its lowercase form is guessed and "_"
\* otherwise.
C13_Mask ==
    /\ Len(current_state) = Len(answer)
    /\ \A i \in 1..Len(answer) :
           current_state[i] =
               IF IsAlpha(answer[i])
               THEN (IF \E g \in guessed_letters : OccursIn(g, <<answer[i]>>)
                     THEN answer[i] ELSE "_")
               ELSE answer[i]

\* "Ab" with only "a" guessed is shown as "A_"
C13_Witness ==
    /\ answer = <<"A", "b">>
    /\ guessed_letters = {"a"}
    /\ current_state = <<"A", "_">>

-----------------------------------------------------------------------------
(* Properties of play *)

\* the turn's input was None (the read timed out)
GotNone == ppc = "got" /\ user_in = Returned(TRUE, <<>>, 0)

\* the turn's input is a line that is neither empty nor the quit word
GotGuess == GotLine /\ Trimmed # <<>> /\ StrLower(Trimmed) # QuitWord

\* every alphabetic character of the answer is guessed
AllGuessed ==
    \A i \in 1..Len(answer) :
        IsAlpha(answer[i])
            => \E g \in guessed_letters : OccursIn(g, <<answer[i]>>)

\* C14 as stated: a trimmed, non-empty, non-quit input goes to the
\* single-letter guess only when it is exactly one alphabetic character;
\* every other such input, a single non-alphabetic character included, is
\* applied through guess_full, a non-matching one costing exactly one life.
C14_Original ==
    [][GotGuess
        => LET s == Trimmed
               letter == Len(s) = 1 /\ IsAlpha(s[1])
           IN  /\ op' = "guess_letter" => letter
               /\ ~letter
                    => (/\ op' = "guess_full"
                        /\ arg' = s
                        /\ ~SameUpToCaseAndSpace(s, answer)
                             => lives' = lives - 1)]_vars

\* C14, amended: a trimmed, non-empty, non-quit input goes to guess_letter
\* only when it is exactly one character, and a not yet guessed alphabetic
\* one is applied by it; a single non-alphabetic character is handed to
\* guess_letter too, whose ValueError makes the turn re-prompt with lives
\* and the guessed set unchanged; every input of two or more characters is
\* applied through guess_full, a non-matching one costing exactly one life.
C14_Routing ==
    [][GotGuess
        => LET s == Trimmed
           IN  /\ op' = "guess_letter" => Len(s) = 1
               /\ (Len(s) = 1 /\ IsAlpha(s[1])
                        /\ ~(\E g \in guessed_letters : OccursIn(g, s)))
                    => (op' = "guess_letter" /\ arg' = s /\ ppc' = "check")
               /\ (Len(s) = 1 /\ ~IsAlpha(s[1]))
                    => (/\ op' = "guess_letter"
                        /\ ret' = RetValueError
                        /\ ppc' = "again"
                        /\ lives' = lives
                        /\ guessed_letters' = guessed_letters)
               /\ Len(s) >= 2
                    => (/\ op' = "guess_full"
                        /\ arg' = s
                        /\ ppc' = "check"
                        /\ ~SameUpToCaseAndSpace(s, answer)
                             => lives' = lives - 1)]_vars

\* the line "1" was rejected by guess_letter and the turn re-prompts
C14_Witness ==
    /\ ppc = "again"
    /\ Trimmed = <<"1">>
    /\ op = "guess_letter"
    /\ ret = RetValueError
    /\ lives = DEFAULT_LIVES

\* C15: a turn whose timed read returned None lowers lives by exactly 1,
\* leaves the guessed set unchanged and calls no Game guess method; the
\* win and loss checks then run as after any other turn.
C15_TimeoutTurn ==
    [][/\ GotNone
            => (/\ lives' = lives - 1
                /\ guessed_letters' = guessed_letters
                /\ op' = "none"
                /\ ppc' = "check")
       /\ (ppc = "check" /\ last = "timeout")
            => ppc' = IF AllGuessed THEN "won"
                      ELSE IF lives <= 0 THEN "lost" ELSE "top"]_vars

\* a timeout took the last life of a game in which a letter was guessed
C15_Witness ==
    /\ ppc = "lost"
    /\ last = "timeout"
    /\ lives = 0
    /\ guessed_letters # {}

\* C16: a turn whose trimmed input is empty, or is a single letter already
\* guessed in either case, leaves lives and the guessed set unchanged, calls
\* no guess and goes back to the prompt: the game does not end.
C16_Reprompt ==
    [][/\ (GotLine /\ (Trimmed = <<>>
                          \/ (/\ Len(Trimmed) = 1
                              /\ \E g \in guessed_letters :
                                     OccursIn(g, Trimmed))))
            => (/\ lives' = lives
                /\ guessed_letters' = guessed_letters
                /\ op' = "none"
                /\ ppc' = "again")
       /\ ppc = "again"
            => (/\ ppc' = "top"
                /\ lives' = lives
                /\ guessed_letters' = guessed_letters)]_vars

\* "A" was typed after "a" had been guessed
C16_Witness ==
    /\ ppc = "again"
    /\ last = "repeated"
    /\ Trimmed = <<"A">>
    /\ "a" \in guessed_letters
    /\ lives < DEFAULT_LIVES

\* a turn is starting or its input has just been read
TurnStarted == ppc \in {"top", "got"}

\* the answer has an alphabetic character
HasLetter == \E i \in 1..Len(answer) : IsAlpha(answer[i])

\* C17 as stated: after a turn that applied an effect the round ends with
\* WIN if every alphabetic character is guessed, otherwise with LOSS if
\* lives <= 0, and otherwise goes on; whenever the loop goes round to start
\* another turn, the game is neither won nor lost.
C17_Original ==
    [][/\ ppc = "check"
            => ppc' = IF AllGuessed THEN "won"
                      ELSE IF lives <= 0 THEN "lost" ELSE "top"
       /\ (ppc # "top" /\ ppc' = "top")
            => (~AllGuessed' /\ lives' > 0)]_vars

\* C17, amended: after a turn that applied an effect (timeout, letter guess,
\* full guess) the round ends with WIN if every alphabetic character is
\* guessed, otherwise with LOSS if lives <= 0, and otherwise goes on; once a
\* turn has applied an effect, no turn starts from a won or lost state.
\* Before the first such turn the game is never lost, and it is won exactly
\* when the answer has no alphabetic character: such a round still runs its
\* turns until the first one that applies an effect.
C17_WinBeforeLoss ==
    /\ [](/\ ppc = "won" => AllGuessed
          /\ ppc = "lost" => (~AllGuessed /\ lives <= 0)
          /\ (TurnStarted /\ turns > 0) => (~AllGuessed /\ lives > 0)
          /\ (TurnStarted /\ turns = 0)
               => (lives > 0 /\ (AllGuessed <=> ~HasLetter)))
    /\ [][/\ ppc = "check"
               => ppc' = IF AllGuessed THEN "won"
                         ELSE IF lives <= 0 THEN "lost" ELSE "top"
          /\ (ppc = "check" /\ ppc' = "top")
               => (~AllGuessed' /\ lives' > 0)]_vars

\* a wrong full guess took the last life and the round ended with LOSS
C17_Witness ==
    /\ ppc = "lost"
    /\ last = "full"
    /\ lives = 0
    /\ ~AllGuessed
    /\ guessed_letters # {}

\* C18: the guessed set holds only lowercase single letters and only grows:
\* no step of a round (a failed guess, a timeout, a rejected character, a
\* re-prompt) removes a letter.
C18_GuessedGrows ==
    /\ [](\A g \in guessed_letters :
              g \in Alphabet /\ IsAlpha(g) /\ Lower(g) = g)
    /\ [][guessed_letters \subseteq guessed_letters']_vars

\* "b1" after the wrong letter "a" was guessed and "1" was rejected
C18_Witness ==
    /\ answer = <<"b", "1">>
    /\ guessed_letters = {"a"}
    /\ last = "invalid"
    /\ lives = DEFAULT_LIVES - 1

\* C19: through play, lives stays within 0..DEFAULT_LIVES and no step lowers
\* it by more than 1; a turn starts only with lives >= 1, the round ends
\* with LOSS on the turn that brings lives to 0, and the win and loss
\* conditions are never both true when the loop evaluates them.
C19_LivesRange ==
    /\ [](/\ lives \in 0..DEFAULT_LIVES
          /\ ppc \in {"top", "got", "again"} => lives >= 1
          /\ lives = 0 => ppc \in {"check", "lost"}
          /\ ppc = "check" => ~(AllGuessed /\ lives <= 0))
    /\ [][/\ lives' \in {lives, lives - 1}
          /\ (ppc = "check" /\ lives = 0) => ppc' = "lost"]_vars

\* a wrong letter took the last life and the round ended with LOSS
C19_Witness ==
    /\ ppc = "lost"
    /\ last = "letter"
    /\ lives = 0
    /\ ret = RetBool(FALSE)

\* the distinct letters of the answer, lowercased
AnswerLetters ==
    {Lower(answer[i]) : i \in {j \in 1..Len(answer) : IsAlpha(answer[j])}}

\* lives plus the number of distinct letters of the answer not yet guessed
Measure == lives + Cardinality(AnswerLetters \ guessed_letters)

\* the round has ended with WIN or LOSS
Over == ppc \in {"won", "lost"}

\* C20 as stated: every turn that applies an effect strictly decreases
\* lives + (distinct letters of the answer not yet guessed), so at most
\* DEFAULT_LIVES + (distinct letters) such turns are played; a round in
\* which every turn timed out ends with LOSS after exactly DEFAULT_LIVES
\* turns.
C20_Original ==
    /\ [](/\ turns <= DEFAULT_LIVES + Cardinality(AnswerLetters)
          /\ (Over /\ onlyTimeouts)
               => (ppc = "lost" /\ turns = DEFAULT_LIVES))
    /\ [][(ppc = "got" /\ ppc' = "check") => Measure' < Measure]_vars

\* C20, amended: for an answer with at least one alphabetic character,
\* every turn that applies an effect strictly decreases lives + (distinct
\* letters of the answer not yet guessed), so the effects applied so far
\* and that measure never add up to more than DEFAULT_LIVES + (distinct
\* letters), and a round in which every turn timed out ends with LOSS after
\* exactly DEFAULT_LIVES turns.  For an answer without an alphabetic
\* character the measure never increases and the round ends with WIN on the
\* first turn that applies an effect.
C20_Measure ==
    /\ [](/\ turns <= DEFAULT_LIVES + Cardinality(AnswerLetters)
          /\ HasLetter
               => (/\ turns + Measure <= DEFAULT_LIVES
                                           + Cardinality(AnswerLetters)
                   /\ (Over /\ onlyTimeouts)
                        => (ppc = "lost" /\ turns = DEFAULT_LIVES))
          /\ (~HasLetter /\ Over) => (ppc = "won" /\ turns = 1))
    /\ [][(ppc = "got" /\ ppc' = "check")
            => IF HasLetter THEN Measure' < Measure
                            ELSE Measure' <= Measure]_vars

\* six timeouts in a row ended a round with LOSS
C20_Witness ==
    /\ ppc = "lost"
    /\ onlyTimeouts
    /\ turns = DEFAULT_LIVES
    /\ HasLetter
    /\ guessed_letters = {}

====
